---- MODULE Spec2Model ----
(***************************************************************************)
(* Workspace lifecycle manager (scripts/spinoff_agent.py): main() from the *)
(* registration of the signal handlers to process exit, with the nested    *)
(* cleanup_handler that is both called by main and installed as the        *)
(* SIGINT/SIGTERM handler.                                                 *)
(*                                                                         *)
(* One step of the model is one external operation of the script (a        *)
(* subprocess, a filesystem call, a log line); a signal may be delivered   *)
(* between any two steps, and its handler runs to its end (or to the next  *)
(* signal) before the interrupted code resumes.                            *)
(***************************************************************************)
EXTENDS Integers, Sequences, FiniteSets, TLC

\* ---- bounds ----
MaxSignals == 2        \* signals delivered during one run
MaxRc == 2             \* external commands exit with a status in 0..MaxRc

\* ---- program constants ----
SIGINT == 2
SIGTERM == 15
NoSignal == 0          \* cleanup_handler(signum=None)
UncaughtStatus == 1    \* status of an interpreter that dies of a traceback

Signals == {SIGINT, SIGTERM}
RcSet == 0..MaxRc
\* status of a command run with check=False: the code reads at most whether
\* it is zero, so one non-zero status stands for all
UncheckedRc == {0, 1}
Raised == 0 - 1        \* outcome of a library call that raised (OSError, YAMLError, ...)
ComposeNames == {"docker-compose.yml"}   \* names matching "*compose.y*ml"

VARIABLES
    pc,              \* position of main()
    hstack,          \* active cleanup_handler invocations, innermost last
    docker_started,  \* main's local, read by the closure cleanup_handler
    wsExists,        \* workspace_path exists on disk (possibly partially copied)
    wsFiles,         \* compose files at the workspace root
    safeExists,      \* workspace_path / "docker-compose.safe.yml" exists
    input_dir,       \* args.input_dir was given
    cwdFiles,        \* compose files in the process's current directory
    repoFiles,       \* compose files at the root of the source repository
    compose_file,    \* setup_docker's local ("" = None)
    exc,             \* returncode of the CalledProcessError being handled
    log,             \* every external operation performed so far, in order
    nsig,            \* signals delivered so far
    exitStatus,      \* process exit status once pc = "done"
    exitHow,         \* "running", "sys_exit" or "uncaught"
    base_branch,     \* main's local: HEAD of the repository of the current directory
    src_head,        \* the branch checked out in the source repository
    docker_services, \* args.docker_services
    \* -- two lifecycle managers running side by side --
    mgr,             \* per process: position, feature name, timestamp, docker_started
    dirs,            \* the workspace directories that exist
    stacks,          \* the compose projects that are up
    mlog,            \* every docker command and rmtree, with its process and target
    \* -- safeify_compose runs sharing one current directory --
    sp,              \* per process: position in cli()/safeify_compose() and its run
    envFile,         \* ./.env
    safeEnvFile,     \* ./.safecompose.env
    outFiles,        \* the output compose files written so far
    runs,            \* the completed runs of safeify_compose, in order of completion
    nruns,           \* runs started so far
    overlapped,      \* some run started while another was in progress
    \* -- the transforms applied to one parsed compose document --
    doc0,            \* the document as parsed from the input file
    doc,             \* the document object, changed in place by each application
    env_vars,        \* the EnvVarSet returned by the latest application
    once,            \* document and EnvVarSet as they were after the first application
    napplied,        \* applications so far
    \* -- one call of safeify_compose followed through its transforms --
    vdoc0,           \* the document in the input file
    vdata,           \* safeify_compose's local `data`
    volume_env_vars, \* the EnvVarSet returned by transform_volumes
    venv,            \* safeify_compose's local `env_vars` (line 157)
    vmode,           \* volumes_option
    vat,             \* position in safeify_compose
    vprev,           \* document and EnvVarSet produced by the previous call
    vwrote,          \* the files this call has opened for writing
    \* -- the paths safeify_compose reads and writes --
    files,           \* content of every file, by path
    prun,            \* one call: its input path, output argument and position
    \* -- what the safeify call of main() leaves in the current directory --
    cwdWrites        \* files of the current directory created or changed

\* what main() is launched with
launch == <<base_branch, src_head, docker_services>>

mainVars == <<pc, hstack, docker_started, wsExists, wsFiles, safeExists,
              input_dir, cwdFiles, repoFiles, compose_file, exc, log, nsig,
              exitStatus, exitHow, launch, cwdWrites>>
mgrVars == <<mgr, dirs, stacks, mlog>>
safeVars == <<sp, envFile, safeEnvFile, outFiles, runs, nruns, overlapped>>
xfVars == <<doc0, doc, env_vars, once, napplied>>
volVars == <<vdoc0, vdata, volume_env_vars, venv, vmode, vat, vprev, vwrote>>
pathVars == <<files, prun>>

\* everything that no step of main() but the safeify call changes
\* the variables of the other specifications
outside == <<mgrVars, safeVars, xfVars, volVars, pathVars>>
others == <<launch, outside, cwdWrites>>
\* everything that no step of the two managers changes
notMgr == <<mainVars, safeVars, xfVars, volVars, pathVars>>
\* everything that no step of a safeify run changes
notSafe == <<mainVars, mgrVars, xfVars, volVars, pathVars>>
\* everything that no application of a transform changes
notXf == <<mainVars, mgrVars, safeVars, volVars, pathVars>>
\* everything that no step of the followed safeify call changes
notVol == <<mainVars, mgrVars, safeVars, xfVars, pathVars>>
\* everything that no step on the paths changes
notPath == <<mainVars, mgrVars, safeVars, xfVars, volVars>>

vars == <<mainVars, mgrVars, safeVars, xfVars, volVars, pathVars>>

Ev(e, r) == [ev |-> e, rc |-> r]
\* a command together with the arguments it was given
EvArg(e, r, a) == [ev |-> e, rc |-> r, arg |-> a]

\* Python values whose type matters to a comparison
PyStr(s) == [type |-> "str", val |-> s]
PyList(l) == [type |-> "list", val |-> l]
\* a != b: values of different types are never equal
PyNe(a, b) == a.type # b.type \/ a.val # b.val
\* truth value of a list or a string: non-empty
PyTruthy(a) == IF a.type = "list" THEN a.val # <<>> ELSE a.val # ""

Branches == {"main", "dev"}
\* lines 229-235: default ["all"], otherwise the value split at the commas
ServiceArgs == {PyList(<<"all">>), PyList(<<"db", "web">>)}

\* positions of main that lie inside its try block (lines 275-307)
TryPcs == {"repo_root", "mkdir", "copytree", "rev_verify", "checkout",
           "checkout_b", "glob", "safeify", "up", "ps", "agent", "agent_wait",
           "summary"}

\* the two managers are not part of the run
MgrIdle ==
    /\ mgr = <<>>
    /\ dirs = {}
    /\ stacks = {}
    /\ mlog = <<>>

\* no safeify run is part of the run
SafeIdle ==
    /\ sp = <<>>
    /\ envFile = [exists |-> FALSE, data |-> <<>>]
    /\ safeEnvFile = [exists |-> FALSE, data |-> <<>>]
    /\ outFiles = {}
    /\ runs = <<>>
    /\ nruns = 0
    /\ overlapped = FALSE

\* no document is being transformed
XfIdle ==
    /\ doc0 = [services |-> <<>>, networks |-> FALSE]
    /\ doc = doc0
    /\ env_vars = <<>>
    /\ once = [data |-> doc0, env_vars |-> <<>>]
    /\ napplied = 0

\* no safeify call is being followed
NoRun == [data |-> [services |-> <<>>], env_vars |-> <<>>, ran |-> FALSE]
VolIdle ==
    /\ vdoc0 = [services |-> <<>>]
    /\ vdata = vdoc0
    /\ volume_env_vars = <<>>
    /\ venv = <<>>
    /\ vmode = ""
    /\ vat = "idle"
    /\ vprev = NoRun
    /\ vwrote = {}

\* no path is being resolved
PathIdle ==
    /\ files = <<>>
    /\ prun = [at |-> "idle"]

Init ==
    /\ MgrIdle
    /\ SafeIdle
    /\ XfIdle
    /\ VolIdle
    /\ PathIdle
    /\ cwdWrites = {}
    /\ pc = "repo_root"
    /\ hstack = <<>>
    /\ docker_started = FALSE
    /\ wsExists = FALSE
    /\ wsFiles = {}
    /\ safeExists = FALSE
    /\ input_dir \in BOOLEAN
    /\ cwdFiles \in SUBSET ComposeNames
    /\ repoFiles \in SUBSET ComposeNames
    /\ compose_file = ""
    /\ exc = 0
    /\ log = <<>>
    /\ nsig = 0
    /\ exitStatus = 0 - 1
    /\ exitHow = "running"
    \* lines 253-258: git rev-parse --abbrev-ref HEAD, run in the current
    \* directory before the handlers are registered
    /\ base_branch = "main"
    \* without --input-dir the source is the repository of the current directory
    /\ src_head \in (IF input_dir THEN Branches ELSE {base_branch})
    /\ docker_services \in ServiceArgs

\* ---- helpers ----

\* subprocess.run(cmd, check=check): a non-zero status raises
\* CalledProcessError only under check=True
run_cmd_never_raises(check, rc) == FALSE
run_cmd_ignores_check(check, rc) == rc # 0
run_cmd(check, rc) == check /\ rc # 0

\* main is executing the statement at p: no handler is running
At(p) == hstack = <<>> /\ pc = p

\* a CalledProcessError with returncode rc is raised inside the try block
RaiseCalledProcessError(rc) == pc' = "except_cpe" /\ exc' = rc
\* any other exception is raised inside the try block
RaiseException == pc' = "except_exc" /\ exc' = exc

\* ---- main(), try block ----

\* line 283: repo_root = args.input_dir or get_repo_root(".")
get_repo_root ==
    /\ At("repo_root")
    /\ IF input_dir
       THEN /\ pc' = "mkdir"
            /\ UNCHANGED <<exc, log>>
       ELSE \E rc \in RcSet :
            /\ log' = Append(log, Ev("git rev-parse --show-toplevel", rc))
            /\ IF run_cmd(TRUE, rc)
               THEN RaiseCalledProcessError(rc)
               ELSE pc' = "mkdir" /\ exc' = exc
    /\ UNCHANGED <<hstack, docker_started, wsExists, wsFiles, safeExists,
                   input_dir, others, cwdFiles, repoFiles, compose_file, nsig,
                   exitStatus, exitHow>>

\* line 286: args.workspaces_dir.mkdir(parents=True, exist_ok=True)
mkdir ==
    /\ At("mkdir")
    /\ \E r \in {0, Raised} :
        /\ log' = Append(log, Ev("mkdir", r))
        /\ IF r = Raised THEN RaiseException ELSE pc' = "copytree" /\ exc' = exc
    /\ UNCHANGED <<hstack, docker_started, wsExists, wsFiles, safeExists,
                   input_dir, others, cwdFiles, repoFiles, compose_file, nsig,
                   exitStatus, exitHow>>

\* line 289: shutil.copytree(repo_root, workspace_path, symlinks=True);
\* a copy that fails may leave any part of the tree behind
copytree ==
    /\ At("copytree")
    /\ \/ /\ log' = Append(log, Ev("copytree", 0))
          /\ wsExists' = TRUE
          /\ wsFiles' = repoFiles
          /\ pc' = "rev_verify" /\ exc' = exc
       \/ /\ log' = Append(log, Ev("copytree", Raised))
          /\ \E e \in BOOLEAN, part \in SUBSET repoFiles :
                /\ wsExists' = e
                /\ wsFiles' = IF e THEN part ELSE {}
          /\ RaiseException
    /\ UNCHANGED <<hstack, docker_started, safeExists, input_dir, others, cwdFiles,
                   repoFiles, compose_file, nsig, exitStatus, exitHow>>

\* lines 90-97: git rev-parse --verify branch_name, check=False
checkout_branch_verify ==
    /\ At("rev_verify")
    /\ \E rc \in UncheckedRc :
        /\ log' = Append(log, Ev("git rev-parse --verify", rc))
        /\ IF run_cmd(FALSE, rc)
           THEN RaiseCalledProcessError(rc)
           ELSE /\ pc' = IF rc = 0 THEN "checkout" ELSE "checkout_b"
                /\ exc' = exc
    /\ UNCHANGED <<hstack, docker_started, wsExists, wsFiles, safeExists,
                   input_dir, others, cwdFiles, repoFiles, compose_file, nsig,
                   exitStatus, exitHow>>

\* lines 98-99: the branch exists, git checkout branch_name
checkout_branch_existing ==
    /\ At("checkout")
    /\ \E rc \in RcSet :
        /\ log' = Append(log, Ev("git checkout", rc))
        /\ IF run_cmd(TRUE, rc)
           THEN RaiseCalledProcessError(rc)
           ELSE pc' = "glob" /\ exc' = exc
    /\ UNCHANGED <<hstack, docker_started, wsExists, wsFiles, safeExists,
                   input_dir, others, cwdFiles, repoFiles, compose_file, nsig,
                   exitStatus, exitHow>>

checkout_branch_new_unchecked ==
    /\ At("checkout_b")
    /\ \E rc \in RcSet :
        /\ log' = Append(log, EvArg("git checkout -b", rc, base_branch))
        /\ pc' = "glob" /\ exc' = exc
    /\ UNCHANGED <<hstack, docker_started, wsExists, wsFiles, safeExists,
                   input_dir, others, cwdFiles, repoFiles, compose_file, nsig,
                   exitStatus, exitHow>>

\* lines 101-102: git checkout -b branch_name base_branch
checkout_branch_new ==
    /\ At("checkout_b")
    /\ \E rc \in RcSet :
        /\ log' = Append(log, EvArg("git checkout -b", rc, base_branch))
        /\ IF run_cmd(TRUE, rc)
           THEN RaiseCalledProcessError(rc)
           ELSE pc' = "glob" /\ exc' = exc
    /\ UNCHANGED <<hstack, docker_started, wsExists, wsFiles, safeExists,
                   input_dir, others, cwdFiles, repoFiles, compose_file, nsig,
                   exitStatus, exitHow>>

\* ---- setup_docker (called at lines 296-301) ----
\* args.docker_services is a non-empty list for every command line (default
\* ["all"], otherwise str.split(",")), so the guard of line 296 always holds.

\* lines 112-120: the glob runs in the current directory, the existence test
\* in the workspace; glob.glob returns the matches in arbitrary order
setup_docker_find ==
    /\ At("glob")
    /\ LET found == cwdFiles \cap wsFiles IN
       IF found = {}
       THEN /\ compose_file' = ""
            /\ docker_started' = FALSE          \* return False
            /\ log' = Append(log, Ev("docker skipped", 0))
            /\ pc' = "agent"
       ELSE /\ \E name \in found : compose_file' = name
            /\ docker_started' = docker_started
            /\ log' = log
            /\ pc' = "safeify"
    /\ UNCHANGED <<hstack, wsExists, wsFiles, safeExists, input_dir, others, cwdFiles,
                   repoFiles, exc, nsig, exitStatus, exitHow>>

\* safeify_compose.py lines 163-183: if the transforms generated variables,
\* .env and then .safecompose.env of the current directory are written
EnvWrites == {{}, {".env", ".safecompose.env"}}

\* lines 122-124: safeify_compose(workspace_path / compose_file,
\* output_path=workspace_path / "docker-compose.safe.yml"); it may raise
\* before or after the output file is written, and after .env is
setup_docker_safeify ==
    /\ At("safeify")
    /\ \/ /\ log' = Append(log, Ev("safeify", 0))
          /\ safeExists' = TRUE
          /\ cwdWrites' \in EnvWrites
          /\ pc' = "up" /\ exc' = exc
       \/ /\ log' = Append(log, Ev("safeify", Raised))
          /\ \/ safeExists' = safeExists /\ cwdWrites' = {}
             \/ safeExists' = TRUE /\ cwdWrites' \in {{}, {".env"}}
          /\ RaiseException
    /\ UNCHANGED <<hstack, docker_started, wsExists, wsFiles, input_dir, launch,
                   outside, cwdFiles, repoFiles, compose_file, nsig, exitStatus,
                   exitHow>>

\* lines 139-143: the service names appended to the up command
up_services(ds) ==
    IF PyTruthy(ds) /\ PyNe(ds, PyStr("all")) THEN ds.val ELSE <<>>

\* lines 126-146: docker compose -f docker-compose.safe.yml -p workspace_id up
setup_docker_up ==
    /\ At("up")
    /\ \E rc \in RcSet :
        /\ log' = Append(log, EvArg("docker up", rc,
                        [project |-> "workspace_id",
                         services |-> up_services(docker_services)]))
        /\ IF run_cmd(TRUE, rc)
           THEN RaiseCalledProcessError(rc)
           ELSE pc' = "ps" /\ exc' = exc
    /\ UNCHANGED <<hstack, docker_started, wsExists, wsFiles, safeExists,
                   input_dir, others, cwdFiles, repoFiles, compose_file, nsig,
                   exitStatus, exitHow>>

\* lines 149-162 and the assignment of line 297: docker compose ps, then
\* return True, which main stores in docker_started
setup_docker_ps ==
    /\ At("ps")
    /\ \E rc \in RcSet :
        /\ log' = Append(log, Ev("docker ps", rc))
        /\ IF run_cmd(TRUE, rc)
           THEN RaiseCalledProcessError(rc) /\ docker_started' = docker_started
           ELSE pc' = "agent" /\ exc' = exc /\ docker_started' = TRUE
    /\ UNCHANGED <<hstack, wsExists, wsFiles, safeExists, input_dir, others, cwdFiles,
                   repoFiles, compose_file, nsig, exitStatus, exitHow>>

\* ---- run_agent (line 304) ----

\* lines 196-199: the agent subprocess is started
run_agent_start ==
    /\ At("agent")
    /\ log' = Append(log, Ev("agent start", 0))
    /\ pc' = "agent_wait"
    /\ UNCHANGED <<hstack, docker_started, wsExists, wsFiles, safeExists,
                   input_dir, others, cwdFiles, repoFiles, compose_file, exc, nsig,
                   exitStatus, exitHow>>

run_agent_wait_unchecked ==
    /\ At("agent_wait")
    /\ \E rc \in RcSet :
        /\ log' = Append(log, Ev("agent exit", rc))
        /\ pc' = "summary" /\ exc' = exc
    /\ UNCHANGED <<hstack, docker_started, wsExists, wsFiles, safeExists,
                   input_dir, others, cwdFiles, repoFiles, compose_file, nsig,
                   exitStatus, exitHow>>

\* line 199: run_cmd([agent_cmd, agent_prompt]) returns when the agent exits;
\* check is left at its default, True
run_agent_wait ==
    /\ At("agent_wait")
    /\ \E rc \in RcSet :
        /\ log' = Append(log, Ev("agent exit", rc))
        /\ IF run_cmd(TRUE, rc)
           THEN RaiseCalledProcessError(rc)
           ELSE pc' = "summary" /\ exc' = exc
    /\ UNCHANGED <<hstack, docker_started, wsExists, wsFiles, safeExists,
                   input_dir, others, cwdFiles, repoFiles, compose_file, nsig,
                   exitStatus, exitHow>>

\* lines 202-207, called at line 307, the last statement of the try block
show_summary ==
    /\ At("summary")
    /\ log' = Append(log, Ev("summary", 0))
    /\ pc' = "normal"
    /\ UNCHANGED <<hstack, docker_started, wsExists, wsFiles, safeExists,
                   input_dir, others, cwdFiles, repoFiles, compose_file, exc, nsig,
                   exitStatus, exitHow>>

\* ---- cleanup_handler (lines 262-269) ----

Frame(signum) == [signum |-> signum, at |-> "docker"]
Top == hstack[Len(hstack)]
InHandler(p) == hstack # <<>> /\ Top.at = p /\ pc # "done"
Goto(p) == hstack' = [hstack EXCEPT ![Len(hstack)].at = p]

\* line 269: sys.exit(0 if signum is None else 128 + signum)
exit_code_zero(signum) == 0
exit_code(signum) == IF signum = NoSignal THEN 0 ELSE 128 + signum

\* An exception leaves cleanup_handler.  No handler invocation catches it, so
\* it unwinds every active invocation and reaches the statement of main that
\* was interrupted: inside the try block the except clauses of lines 312-319
\* catch it, anywhere else the interpreter dies of it.
RaiseFromHandler(cpe, rc) ==
    /\ hstack' = <<>>
    /\ IF pc \in TryPcs
       THEN /\ pc' = IF cpe THEN "except_cpe" ELSE "except_exc"
            /\ exc' = IF cpe THEN rc ELSE exc
            /\ UNCHANGED <<exitStatus, exitHow>>
       ELSE /\ pc' = "done"
            /\ exitStatus' = UncaughtStatus
            /\ exitHow' = "uncaught"
            /\ exc' = exc

\* lines 272-273: SIGINT or SIGTERM is delivered and Python runs
\* cleanup_handler(signum, frame) on top of whatever is executing
signal_delivery(s) ==
    /\ pc # "done"
    /\ nsig < MaxSignals
    /\ nsig' = nsig + 1
    /\ hstack' = Append(hstack, Frame(s))
    /\ log' = Append(log, Ev("cleanup_handler", s))
    /\ UNCHANGED <<pc, docker_started, wsExists, wsFiles, safeExists, input_dir, others,
                   cwdFiles, repoFiles, compose_file, exc, exitStatus, exitHow>>

\* lines 265-266 with cleanup_docker (lines 165-184): docker compose down -v,
\* check=False, only if docker_started and the safe compose file exists
cleanup_docker ==
    /\ InHandler("docker")
    /\ IF docker_started /\ safeExists
       THEN \E rc \in UncheckedRc :
            /\ log' = Append(log, Ev("docker down", rc))
            /\ IF run_cmd(FALSE, rc)
               THEN RaiseFromHandler(TRUE, rc)
               ELSE Goto("rm") /\ UNCHANGED <<pc, exc, exitStatus, exitHow>>
       ELSE /\ Goto("rm")
            /\ UNCHANGED <<pc, exc, exitStatus, exitHow, log>>
    /\ UNCHANGED <<docker_started, wsExists, wsFiles, safeExists, input_dir, others,
                   cwdFiles, repoFiles, compose_file, nsig>>

\* line 267 with cleanup_workspace (lines 187-191): shutil.rmtree if the
\* directory exists; an rmtree that raises may have removed part of the tree
cleanup_workspace ==
    /\ InHandler("rm")
    /\ IF wsExists
       THEN \/ /\ log' = Append(log, Ev("rmtree", 0))
               /\ wsExists' = FALSE
               /\ wsFiles' = {}
               /\ safeExists' = FALSE
               /\ Goto("exit")
               /\ UNCHANGED <<pc, exc, exitStatus, exitHow>>
            \/ /\ log' = Append(log, Ev("rmtree", Raised))
               /\ wsExists' = TRUE
               /\ wsFiles' \in SUBSET wsFiles
               /\ safeExists' \in {safeExists, FALSE}
               /\ RaiseFromHandler(FALSE, 0)
       ELSE /\ Goto("exit")
            /\ UNCHANGED <<pc, exc, exitStatus, exitHow, log, wsExists,
                           wsFiles, safeExists>>
    /\ UNCHANGED <<docker_started, input_dir, others, cwdFiles, repoFiles,
                   compose_file, nsig>>

\* sys.exit only for a signal; a call from main returns, and main goes on to
\* sys.exit(e.returncode) (line 315), sys.exit(1) (line 319) or its end
cleanup_handler_exit_returns ==
    /\ InHandler("exit")
    /\ hstack' = <<>>
    /\ pc' = "done"
    /\ exitStatus' = IF Top.signum # NoSignal THEN 128 + Top.signum
                     ELSE IF pc = "in_except_cpe" THEN exc
                     ELSE IF pc = "in_except_exc" THEN 1
                     ELSE 0
    /\ exitHow' = "sys_exit"
    /\ UNCHANGED <<docker_started, wsExists, wsFiles, safeExists, input_dir, others,
                   cwdFiles, repoFiles, compose_file, exc, log, nsig>>

\* lines 268-269: sys.exit raises SystemExit, which no except clause of main
\* catches (it is not an Exception), so the process exits with that status
cleanup_handler_exit ==
    /\ InHandler("exit")
    /\ hstack' = <<>>
    /\ pc' = "done"
    /\ exitStatus' = exit_code(Top.signum)
    /\ exitHow' = "sys_exit"
    /\ UNCHANGED <<docker_started, wsExists, wsFiles, safeExists, input_dir, others,
                   cwdFiles, repoFiles, compose_file, exc, log, nsig>>

\* ---- main(), the callers of cleanup_handler ----

CallCleanup(next) ==
    /\ hstack' = Append(hstack, Frame(NoSignal))
    /\ log' = Append(log, Ev("cleanup_handler", NoSignal))
    /\ pc' = next
    /\ UNCHANGED <<docker_started, wsExists, wsFiles, safeExists, input_dir, others,
                   cwdFiles, repoFiles, compose_file, exc, nsig, exitStatus,
                   exitHow>>

\* lines 312-315: cleanup_handler() never returns (it ends in sys.exit or
\* raises), so sys.exit(e.returncode) of line 315 is never executed
except_CalledProcessError ==
    /\ At("except_cpe")
    /\ CallCleanup("in_except_cpe")

except_Exception_no_cleanup ==
    /\ At("except_exc")
    /\ pc' = "done"
    /\ exitStatus' = 1
    /\ exitHow' = "sys_exit"
    /\ UNCHANGED <<hstack, docker_started, wsExists, wsFiles, safeExists,
                   input_dir, others, cwdFiles, repoFiles, compose_file, exc, log, nsig>>

\* lines 316-319: likewise sys.exit(1) of line 319 is never executed
except_Exception ==
    /\ At("except_exc")
    /\ CallCleanup("in_except_exc")

\* line 322
normal_cleanup ==
    /\ At("normal")
    /\ CallCleanup("in_normal")

\* The clause of lines 309-311 (except KeyboardInterrupt) has no action: with
\* cleanup_handler installed for SIGINT, nothing raises KeyboardInterrupt.

Next ==
    \/ get_repo_root
    \/ mkdir
    \/ copytree
    \/ checkout_branch_verify
    \/ checkout_branch_existing
    \/ checkout_branch_new
    \/ setup_docker_find
    \/ setup_docker_safeify
    \/ setup_docker_up
    \/ setup_docker_ps
    \/ run_agent_start
    \/ run_agent_wait
    \/ show_summary
    \/ except_CalledProcessError
    \/ except_Exception
    \/ normal_cleanup
    \/ \E s \in Signals : signal_delivery(s)
    \/ cleanup_docker
    \/ cleanup_workspace
    \/ cleanup_handler_exit

Spec == Init /\ [][Next]_vars

TypeOK ==
    /\ pc \in TryPcs \cup {"except_cpe", "except_exc", "normal", "in_except_cpe",
                          "in_except_exc", "in_normal", "done", "idle"}
    /\ docker_started \in BOOLEAN
    /\ wsExists \in BOOLEAN
    /\ safeExists \in BOOLEAN
    /\ safeExists => wsExists
    /\ nsig \in 0..MaxSignals
    /\ Len(hstack) <= MaxSignals + 1
    /\ (pc = "done") = (exitHow # "running")

\* ---- observations on the run ----

Exited == pc = "done"
Has(e) == \E i \in DOMAIN log : log[i].ev = e
HasRc(e, r) == \E i \in DOMAIN log : log[i].ev = e /\ log[i].rc = r
Failed(e) == \E i \in DOMAIN log : log[i].ev = e /\ log[i].rc # 0
Count(e) == Cardinality({i \in DOMAIN log : log[i].ev = e})
\* some shutil.rmtree of the workspace raised
RmFailed == HasRc("rmtree", Raised)
\* the signals delivered so far, in order
SignalIdx == {i \in DOMAIN log : log[i].ev = "cleanup_handler" /\ log[i].rc # NoSignal}
LastSignal == log[CHOOSE i \in SignalIdx : \A j \in SignalIdx : j <= i].rc
BranchFailed == Failed("git checkout") \/ Failed("git checkout -b")

\* ---- C1 ----
\* C1: whichever way a run ends (normal completion, a failing stage, SIGINT,
\* SIGTERM), if no removal of the workspace directory failed, the workspace
\* directory does not exist when the process has exited.
Thm_C1 == (Exited /\ ~RmFailed) => ~wsExists

\* a run that created the workspace, failed in a stage, was hit by a signal
\* and has exited
Wit_C1 ==
    /\ Exited
    /\ HasRc("copytree", 0)
    /\ Failed("docker up")
    /\ nsig > 0
    /\ ~RmFailed
    /\ ~wsExists

\* ---- C2 ----
\* C2: if docker compose up exits non-zero (after copy and checkout), then,
\* unless the directory removal fails, by process exit a docker compose down
\* has been attempted and the workspace directory has been removed.
Claim_C2 ==
    (Exited /\ Failed("docker up") /\ ~RmFailed)
        => (Has("docker down") /\ ~wsExists)

\* ---- C3 ----
\* C3: once a signal has been delivered, at whatever stage, the run ends (if
\* no directory removal fails) by exiting with status 128 + the number of the
\* signal whose handler completed, after the teardown, with the workspace
\* directory removed.
Thm_C3 ==
    (Exited /\ nsig > 0 /\ ~RmFailed)
        => /\ exitStatus = 128 + LastSignal
           /\ exitStatus \in {130, 143}
           /\ exitHow = "sys_exit"
           /\ ~wsExists

\* SIGINT while the agent is running: exit status 130, workspace removed
Wit_C3 ==
    /\ Exited
    /\ Has("agent start")
    /\ ~Has("agent exit")
    /\ nsig = 1
    /\ exitStatus = 128 + SIGINT
    /\ HasRc("rmtree", 0)
    /\ ~wsExists

\* ---- C4 ----
\* C4: on every path by which the process ends (a signal during a teardown
\* in progress included), the teardown is executed exactly once: it has run,
\* and docker compose down and the removal of the directory have each been
\* executed at most once.
Claim_C4 ==
    (Exited /\ ~RmFailed)
        => /\ Count("cleanup_handler") >= 1
           /\ Count("docker down") <= 1
           /\ Count("rmtree") <= 1

\* ---- C5 ----
\* C5: whenever docker compose up has exited with status zero, whatever
\* happens next, docker compose down has been invoked by the time the process
\* has exited (runs in which the directory removal fails set aside).
Claim_C5 ==
    (Exited /\ HasRc("docker up", 0) /\ ~RmFailed) => Has("docker down")

\* ---- C6 ----
\* C6: a docker compose down that fails is still followed by the removal of
\* the workspace directory (nothing but a new signal can come in between);
\* a removal that fails leaves cleanup_handler as an exception, and the
\* process never exits through sys.exit while the directory is still there.
Thm_C6 ==
    /\ \A i \in DOMAIN log :
        log[i].ev = "docker down" =>
            IF i = Len(log)
            THEN InHandler("rm") /\ wsExists
            ELSE \/ log[i + 1].ev = "rmtree"
                 \/ log[i + 1].ev = "cleanup_handler" /\ log[i + 1].rc # NoSignal
    /\ (log # <<>> /\ log[Len(log)] = Ev("rmtree", Raised))
            => /\ hstack = <<>>
               /\ pc \in {"except_exc", "done"}
               /\ Exited => exitHow = "uncaught"
    /\ (Exited /\ wsExists)
            => /\ exitHow = "uncaught"
               /\ exitStatus = UncaughtStatus
               /\ log[Len(log)] = Ev("rmtree", Raised)

\* docker compose down failed, the removal was attempted all the same, failed
\* too, and the process died of that exception
Wit_C6 ==
    /\ Exited
    /\ Failed("docker down")
    /\ RmFailed
    /\ wsExists
    /\ exitHow = "uncaught"

Thm_C8 ==
    (Exited /\ Has("agent exit") /\ nsig = 0 /\ ~RmFailed) => exitStatus = 0

\* the agent exited with status 2 and the process with status 0
Wit_C8 ==
    /\ Exited
    /\ HasRc("agent exit", 2)
    /\ nsig = 0
    /\ ~RmFailed
    /\ exitStatus = 0

\* ---- C9 ----
\* C9: the summary is printed only after the copy, the branch checkout, the
\* docker stage (up and ps, or skipped) and the agent all completed without
\* error, and no signal was delivered and no operation failed before it.
Thm_C9 ==
    \A i \in DOMAIN log :
        log[i].ev = "summary" =>
            /\ HasRc("copytree", 0)
            /\ HasRc("git checkout", 0) \/ HasRc("git checkout -b", 0)
            /\ \/ Has("docker skipped")
               \/ HasRc("safeify", 0) /\ HasRc("docker up", 0) /\ HasRc("docker ps", 0)
            /\ HasRc("agent exit", 0)
            /\ \A j \in 1..(i - 1) :
                /\ log[j].ev # "cleanup_handler"
                /\ log[j].rc # 0 => log[j].ev = "git rev-parse --verify"

Wit_C9 ==
    /\ Exited
    /\ Has("summary")
    /\ HasRc("docker ps", 0)
    /\ exitStatus = 0

\* ---- C10 ----
\* C10: when git checkout (existing branch) or git checkout -b (new branch)
\* fails, neither the docker stage nor the agent is ever started, and the
\* process exits only after the teardown, with the workspace removed unless
\* the removal itself fails.
Thm_C10 ==
    BranchFailed
        => /\ ~Has("docker skipped") /\ ~Has("safeify") /\ ~Has("docker up")
           /\ ~Has("agent start")
           /\ ~docker_started
           /\ Exited => /\ Has("cleanup_handler")
                        /\ Has("rmtree")
                        /\ ~RmFailed => ~wsExists

Wit_C10 ==
    /\ Exited
    /\ Failed("git checkout -b")
    /\ nsig = 0
    /\ HasRc("rmtree", 0)
    /\ ~wsExists

\* ---- C11 ----
\* C11: an existing branch feat/{feature_name} is checked out, a missing one
\* is created, and it is created from the branch that is checked out in the
\* source repository, also when that repository is given by --input-dir.
Claim_C11 ==
    \A i \in DOMAIN log :
        /\ log[i].ev = "git checkout"
            => i > 1 /\ log[i - 1] = Ev("git rev-parse --verify", 0)
        /\ log[i].ev = "git checkout -b"
            => /\ i > 1
               /\ log[i - 1].ev = "git rev-parse --verify"
               /\ log[i - 1].rc # 0
               /\ log[i].arg = src_head

\* ---- C12 ----
\* C12: the docker stage is skipped exactly when the workspace root (the copy
\* of the source repository) holds no compose file; when it holds one,
\* safeify is run, whatever the current directory contains.
Claim_C12 ==
    /\ Has("docker skipped") => repoFiles = {}
    /\ Has("safeify") => repoFiles # {}

\* ---- C13 ----
\* C13: docker compose up is run with the workspace id as project name and
\* with exactly the requested service names appended, none when the request
\* is "all".
Claim_C13 ==
    \A i \in DOMAIN log :
        log[i].ev = "docker up"
            => /\ log[i].arg.project = "workspace_id"
               /\ log[i].arg.services =
                    IF docker_services.val = <<"all">>
                    THEN <<>>
                    ELSE docker_services.val

(***************************************************************************)
(* Two lifecycle managers running concurrently as separate processes that  *)
(* share the workspaces directory and the docker daemon.  Each process is  *)
(* main() reduced to the steps that touch the shared state: the workspace  *)
(* directory (copytree, rmtree) and the compose project (up, ps, down).    *)
(***************************************************************************)

Pids == {"101", "102"}                  \* os.getpid() of the two live processes
Features == {<<"a">>, <<"a", "_", "1">>} \* args.feature_name, as characters
Times == {"1", "2"}                     \* int(time.time())

\* no single run of main() is going on
MainIdle ==
    /\ pc = "idle"
    /\ hstack = <<>>
    /\ docker_started = FALSE
    /\ wsExists = FALSE
    /\ wsFiles = {}
    /\ safeExists = FALSE
    /\ input_dir = FALSE
    /\ cwdFiles = {}
    /\ repoFiles = {}
    /\ compose_file = ""
    /\ exc = 0
    /\ log = <<>>
    /\ nsig = 0
    /\ exitStatus = 0 - 1
    /\ exitHow = "running"
    /\ base_branch = "main"
    /\ src_head = "main"
    /\ docker_services = PyList(<<"all">>)
    /\ cwdWrites = {}

\* line 250: workspace_id = f"{args.feature_name}_{int(time.time())}_{os.getpid()}"
workspace_id_no_pid(f, t, p) == f \o <<"_", t>>
workspace_id(f, t, p) == f \o <<"_", t, "_", p>>

\* line 251: workspace_path = args.workspaces_dir / workspace_id
workspace_path(id) == <<"workspaces", id>>

IdOf(p) == workspace_id(mgr[p].feature, mgr[p].time, p)
PathOf(p) == workspace_path(IdOf(p))

InitMgr ==
    /\ MainIdle
    /\ VolIdle
    /\ PathIdle
    /\ SafeIdle
    /\ XfIdle
    /\ mgr = [p \in Pids |-> [at |-> "start", feature |-> <<>>, time |-> "",
                              docker_started |-> FALSE]]
    /\ dirs = {}
    /\ stacks = {}
    /\ mlog = <<>>

MEv(p, c, t) == [pid |-> p, cmd |-> c, target |-> t]

\* lines 248-252: the process is launched with a feature name at some second
m_start(p) ==
    /\ mgr[p].at = "start"
    /\ \E f \in Features, t \in Times :
        mgr' = [mgr EXCEPT ![p].at = "copy", ![p].feature = f, ![p].time = t]
    /\ UNCHANGED <<dirs, stacks, mlog, notMgr>>

\* line 289: shutil.copytree raises FileExistsError if the target exists
m_copytree(p) ==
    /\ mgr[p].at = "copy"
    /\ IF PathOf(p) \in dirs
       THEN /\ mgr' = [mgr EXCEPT ![p].at = "cleanup"]
            /\ dirs' = dirs
       ELSE /\ mgr' = [mgr EXCEPT ![p].at = "up"]
            /\ dirs' = dirs \cup {PathOf(p)}
    /\ UNCHANGED <<stacks, mlog, notMgr>>

\* lines 126-146: docker compose -p workspace_id up; a failing up may leave
\* the project partially up
m_up(p) ==
    /\ mgr[p].at = "up"
    /\ mlog' = Append(mlog, MEv(p, "up", IdOf(p)))
    /\ \/ /\ stacks' = stacks \cup {IdOf(p)}
          /\ mgr' = [mgr EXCEPT ![p].at = "ps"]
       \/ /\ stacks' \in {stacks, stacks \cup {IdOf(p)}}
          /\ mgr' = [mgr EXCEPT ![p].at = "cleanup"]
    /\ UNCHANGED <<dirs, notMgr>>

\* lines 149-162, 297: docker compose -p workspace_id ps, docker_started = True
m_ps(p) ==
    /\ mgr[p].at = "ps"
    /\ mlog' = Append(mlog, MEv(p, "ps", IdOf(p)))
    /\ \/ mgr' = [mgr EXCEPT ![p].at = "agent", ![p].docker_started = TRUE]
       \/ mgr' = [mgr EXCEPT ![p].at = "cleanup"]
    /\ UNCHANGED <<dirs, stacks, notMgr>>

\* lines 304-322: the agent finishes, one way or the other, and main goes on
\* to cleanup_handler
m_agent(p) ==
    /\ mgr[p].at = "agent"
    /\ mgr' = [mgr EXCEPT ![p].at = "cleanup"]
    /\ UNCHANGED <<dirs, stacks, mlog, notMgr>>

\* lines 272-273: a signal sends the process to cleanup_handler at any stage
m_signal(p) ==
    /\ mgr[p].at \in {"copy", "up", "ps", "agent"}
    /\ mgr' = [mgr EXCEPT ![p].at = "cleanup"]
    /\ UNCHANGED <<dirs, stacks, mlog, notMgr>>

\* lines 265-266, 165-184: docker compose -p workspace_id down -v, if
\* docker_started and the safe compose file (inside the workspace) exists
m_cleanup_docker(p) ==
    /\ mgr[p].at = "cleanup"
    /\ IF mgr[p].docker_started /\ PathOf(p) \in dirs
       THEN /\ mlog' = Append(mlog, MEv(p, "down", IdOf(p)))
            /\ stacks' = stacks \ {IdOf(p)}
       ELSE UNCHANGED <<mlog, stacks>>
    /\ mgr' = [mgr EXCEPT ![p].at = "rm"]
    /\ UNCHANGED <<dirs, notMgr>>

\* lines 267, 187-191: shutil.rmtree(workspace_path) if it exists
m_cleanup_workspace(p) ==
    /\ mgr[p].at = "rm"
    /\ IF PathOf(p) \in dirs
       THEN /\ mlog' = Append(mlog, MEv(p, "rmtree", PathOf(p)))
            /\ dirs' = dirs \ {PathOf(p)}
       ELSE UNCHANGED <<mlog, dirs>>
    /\ mgr' = [mgr EXCEPT ![p].at = "done"]
    /\ UNCHANGED <<stacks, notMgr>>

NextMgr ==
    \/ \E p \in Pids : m_start(p)
    \/ \E p \in Pids : m_copytree(p)
    \/ \E p \in Pids : m_up(p)
    \/ \E p \in Pids : m_ps(p)
    \/ \E p \in Pids : m_agent(p)
    \/ \E p \in Pids : m_signal(p)
    \/ \E p \in Pids : m_cleanup_docker(p)
    \/ \E p \in Pids : m_cleanup_workspace(p)

SpecMgr == InitMgr /\ [][NextMgr]_vars

Started(p) == mgr[p].at # "start"

\* ---- C14 ----
\* C14: under any interleaving of two managers, their workspace ids and
\* directories differ, every docker command of a manager names that
\* manager's workspace id as project, every rmtree of a manager removes that
\* manager's directory, and a manager that has not begun its teardown still
\* has its directory, and its stack once docker_started is set.
Thm_C14 ==
    /\ \A p, q \in Pids :
        (p # q /\ Started(p) /\ Started(q))
            => IdOf(p) # IdOf(q) /\ PathOf(p) # PathOf(q)
    /\ \A i \in DOMAIN mlog :
        /\ mlog[i].cmd \in {"up", "ps", "down"} => mlog[i].target = IdOf(mlog[i].pid)
        /\ mlog[i].cmd = "rmtree" => mlog[i].target = PathOf(mlog[i].pid)
        /\ \A q \in Pids :
            (q # mlog[i].pid /\ Started(q))
                => IF mlog[i].cmd = "rmtree"
                   THEN mlog[i].target # PathOf(q)
                   ELSE mlog[i].target # IdOf(q)
    /\ \A q \in Pids :
        /\ mgr[q].at \in {"up", "ps", "agent"} => PathOf(q) \in dirs
        /\ (mgr[q].at = "agent" /\ mgr[q].docker_started) => IdOf(q) \in stacks

\* same feature name, same second: one manager has torn everything down while
\* the other is still running its agent on its own directory and stack
Wit_C14 ==
    /\ mgr["101"].at = "done"
    /\ mgr["102"].at = "agent"
    /\ mgr["101"].feature = mgr["102"].feature
    /\ mgr["101"].time = mgr["102"].time
    /\ mgr["102"].docker_started
    /\ \E i \in DOMAIN mlog : mlog[i] = MEv("101", "down", IdOf("101"))
    /\ \E i \in DOMAIN mlog : mlog[i] = MEv("101", "rmtree", PathOf("101"))

(***************************************************************************)
(* safeify_compose.py: runs of safeify_compose(), entered through cli() or *)
(* called as a function, in processes that share one current directory     *)
(* and so one .env and one .safecompose.env.  A step is one file           *)
(* operation.  The text written by one run is smaller than the buffer of   *)
(* the file object, so it reaches the file as one write when the file is   *)
(* closed.                                                                 *)
(***************************************************************************)

MaxRuns == 3            \* runs started in one behaviour

SProcs == {1, 2}
\* the KEY=VALUE lines a transform can produce (line 169)
EnvSets == {<<>>, <<"WEB_PORT=80">>, <<"API_PORT_0=80", "API_PORT_1=443">>}
VolumeModes == {"remove", "keep", "convert-to-named"}    \* line 209
\* lines 200-218: the attributes argparse puts on args
ArgAttrs == {"compose_file", "volumes", "output"}

\* a piece of text in a file, with the run that wrote it (0: there before)
Tok(r, t) == [run |-> r, text |-> t]
NL == Tok(0, "\n")
Marker(r) == Tok(r, "# Generated by safeify_compose.py")

RECURSIVE LinesOf(_, _)
\* f.writelines(f"{line}\n" for line in env_lines)
LinesOf(r, lines) ==
    IF lines = <<>> THEN <<>>
    ELSE <<Tok(r, Head(lines)), NL>> \o LinesOf(r, Tail(lines))

\* lines 175-176: what a run appends to .env
EnvBlock(r, lines) == <<NL, Marker(r), NL>> \o LinesOf(r, lines)
\* lines 181-182: what a run writes to .safecompose.env
SafeBlock(r, lines) == <<Marker(r), NL>> \o LinesOf(r, lines)

SpIdle == [at |-> "idle", entry |-> "", matches |-> 0, exists |-> FALSE,
           volumes |-> "", env_lines |-> <<>>, run |-> 0, status |-> 0 - 1,
           wrote |-> {}]

InitSafe ==
    /\ MainIdle
    /\ VolIdle
    /\ PathIdle
    /\ MgrIdle
    /\ XfIdle
    /\ sp = [q \in SProcs |-> SpIdle]
    \* .env may be there already, with or without a final newline
    /\ envFile \in {[exists |-> FALSE, data |-> <<>>],
                    [exists |-> TRUE, data |-> <<Tok(0, "X=1"), NL>>],
                    [exists |-> TRUE, data |-> <<Tok(0, "X=1")>>]}
    /\ safeEnvFile = [exists |-> FALSE, data |-> <<>>]
    /\ outFiles = {}
    /\ runs = <<>>
    /\ nruns = 0
    /\ overlapped = FALSE

Busy(q) == sp[q].at \notin {"idle", "exited"}

\* a run begins in process q
Begin(q, rec) ==
    /\ ~Busy(q)
    /\ nruns < MaxRuns
    /\ nruns' = nruns + 1
    /\ overlapped' = (overlapped \/ \E o \in SProcs : o # q /\ Busy(o))
    /\ sp' = [sp EXCEPT ![q] = [rec EXCEPT !.run = nruns + 1]]
    /\ UNCHANGED <<envFile, safeEnvFile, outFiles, runs, notSafe>>

\* lines 192-220: the script is started; the glob of line 223 will match
\* n files of the current directory
s_start_cli(q) ==
    \E n \in 0..2, e \in BOOLEAN, v \in VolumeModes :
        /\ n = 0 => ~e
        /\ Begin(q, [SpIdle EXCEPT !.at = "cli", !.entry = "cli", !.matches = n,
                                  !.exists = e, !.volumes = v])

\* lines 143-148: safeify_compose is called as a function, as setup_docker
\* does (volumes_option at its default)
s_start_call(q) ==
    Begin(q, [SpIdle EXCEPT !.at = "read", !.entry = "call", !.matches = 1,
                            !.exists = TRUE, !.volumes = "convert-to-named"])

Exit(q, st) == sp' = [sp EXCEPT ![q].at = "exited", ![q].status = st]

cli_first_match(q) ==
    /\ sp[q].at = "cli"
    /\ IF sp[q].matches = 0
       THEN Exit(q, 1)
       ELSE sp' = [sp EXCEPT ![q].at = "read"]
    /\ UNCHANGED <<envFile, safeEnvFile, outFiles, runs, nruns, overlapped,
                   notSafe>>

\* lines 222-240: cli() after parse_args
cli(q) ==
    /\ sp[q].at = "cli"
    /\ IF sp[q].matches = 0
       THEN Exit(q, 1)                               \* line 226
       ELSE IF sp[q].matches > 1
       THEN Exit(q, 1)                               \* line 233
       ELSE IF ~sp[q].exists
       THEN Exit(q, 1)                               \* line 238
       ELSE IF {"output_path", "volumes"} \subseteq ArgAttrs
       THEN sp' = [sp EXCEPT ![q].at = "read"]       \* line 240, the call
       ELSE Exit(q, UncaughtStatus)                  \* line 240, AttributeError
    /\ UNCHANGED <<envFile, safeEnvFile, outFiles, runs, nruns, overlapped,
                   notSafe>>

\* lines 150-157: the input is read, parsed and transformed; any of these may
\* raise, otherwise the transform produces the run's env_vars
s_transform(q) ==
    /\ sp[q].at = "read"
    /\ \/ Exit(q, UncaughtStatus)
       \/ \E lines \in EnvSets :
            sp' = [sp EXCEPT ![q].at = "write_out", ![q].env_lines = lines]
    /\ UNCHANGED <<envFile, safeEnvFile, outFiles, runs, nruns, overlapped,
                   notSafe>>

\* lines 159-163: the output compose file is written, then `if env_vars:`
s_write_output(q) ==
    /\ sp[q].at = "write_out"
    /\ outFiles' = outFiles \cup {[run |-> sp[q].run, volumes |-> sp[q].volumes]}
    /\ sp' = [sp EXCEPT ![q].at = IF sp[q].env_lines # <<>> THEN "open_env"
                                  ELSE "return",
                        ![q].wrote = @ \cup {"output"}]
    /\ UNCHANGED <<envFile, safeEnvFile, runs, nruns, overlapped, notSafe>>

s_open_env_truncating(q) ==
    /\ sp[q].at = "open_env"
    /\ envFile' = [exists |-> TRUE, data |-> <<>>]
    /\ sp' = [sp EXCEPT ![q].at = "close_env", ![q].wrote = @ \cup {".env"}]
    /\ UNCHANGED <<safeEnvFile, outFiles, runs, nruns, overlapped, notSafe>>

\* line 174: open(".env", "a") creates the file if it is missing and leaves
\* its content alone
s_open_env(q) ==
    /\ sp[q].at = "open_env"
    /\ envFile' = [envFile EXCEPT !.exists = TRUE]
    /\ sp' = [sp EXCEPT ![q].at = "close_env", ![q].wrote = @ \cup {".env"}]
    /\ UNCHANGED <<safeEnvFile, outFiles, runs, nruns, overlapped, notSafe>>

\* lines 175-176 and the end of the with block: the buffered text is written
\* at the end of the file, wherever that is by now (append mode)
s_close_env(q) ==
    /\ sp[q].at = "close_env"
    /\ envFile' = [exists |-> TRUE,
                   data |-> envFile.data \o EnvBlock(sp[q].run, sp[q].env_lines)]
    /\ sp' = [sp EXCEPT ![q].at = "open_safe"]
    /\ UNCHANGED <<safeEnvFile, outFiles, runs, nruns, overlapped, notSafe>>

\* line 180: open(".safecompose.env", "w") creates or truncates the file
s_open_safe(q) ==
    /\ sp[q].at = "open_safe"
    /\ safeEnvFile' = [exists |-> TRUE, data |-> <<>>]
    /\ sp' = [sp EXCEPT ![q].at = "close_safe",
                        ![q].wrote = @ \cup {".safecompose.env"}]
    /\ UNCHANGED <<envFile, outFiles, runs, nruns, overlapped, notSafe>>

\* lines 181-182 and the end of the with block: the buffered text is written
\* at offset 0, over whatever another process has written since the open
s_close_safe(q) ==
    /\ sp[q].at = "close_safe"
    /\ LET buf == SafeBlock(sp[q].run, sp[q].env_lines)
           old == safeEnvFile.data
       IN safeEnvFile' = [exists |-> TRUE,
                          data |-> buf \o SubSeq(old, Len(buf) + 1, Len(old))]
    /\ sp' = [sp EXCEPT ![q].at = "return"]
    /\ UNCHANGED <<envFile, outFiles, runs, nruns, overlapped, notSafe>>

\* lines 185-189: safeify_compose returns; a script that got here ends with
\* status 0
s_return(q) ==
    /\ sp[q].at = "return"
    /\ runs' = Append(runs, [run |-> sp[q].run, env_lines |-> sp[q].env_lines])
    /\ sp' = [sp EXCEPT ![q].at = IF sp[q].entry = "cli" THEN "exited" ELSE "idle",
                        ![q].status = 0]
    /\ UNCHANGED <<envFile, safeEnvFile, outFiles, nruns, overlapped, notSafe>>

NextSafe ==
    \/ \E q \in SProcs : s_start_cli(q)
    \/ \E q \in SProcs : s_start_call(q)
    \/ \E q \in SProcs : cli(q)
    \/ \E q \in SProcs : s_transform(q)
    \/ \E q \in SProcs : s_write_output(q)
    \/ \E q \in SProcs : s_open_env(q)
    \/ \E q \in SProcs : s_close_env(q)
    \/ \E q \in SProcs : s_open_safe(q)
    \/ \E q \in SProcs : s_close_safe(q)
    \/ \E q \in SProcs : s_return(q)

SpecSafe == InitSafe /\ [][NextSafe]_vars

IsPrefix(a, b) == Len(a) <= Len(b) /\ SubSeq(b, 1, Len(a)) = a
\* the token stands in the file as a complete line of its own
IntactLine(data, tok) ==
    \E i \in DOMAIN data :
        /\ data[i] = tok
        /\ i > 1 /\ data[i - 1] = NL
        /\ i < Len(data) /\ data[i + 1] = NL
\* the KEY=VALUE lines in a file
VarsIn(data) ==
    {data[i] : i \in {j \in DOMAIN data :
                        data[j].text \notin {NL.text, Marker(0).text}}}
AllQuiet == \A q \in SProcs : ~Busy(q)

Claim_C16 ==
    (AllQuiet /\ runs # <<>> /\ ~overlapped)
        => LET last == runs[Len(runs)]
           IN VarsIn(safeEnvFile.data) =
                {Tok(last.run, last.env_lines[k]) : k \in DOMAIN last.env_lines}

\* ---- C17 ----
\* C17: a script run whose glob matches no file, or more than one, ends with
\* status 1 in its first step, having written no output file, no .env and no
\* .safecompose.env.
Thm_C17 ==
    \A q \in SProcs :
        (sp[q].entry = "cli" /\ sp[q].matches # 1 /\ sp[q].at # "cli")
            => /\ sp[q].at = "exited"
               /\ sp[q].status = 1
               /\ sp[q].wrote = {}
               /\ \A f \in outFiles : f.run # sp[q].run

\* two files match, the script has exited with status 1 while .env holds the
\* variables of an earlier run
Wit_C17 ==
    \E q \in SProcs :
        /\ sp[q].entry = "cli"
        /\ sp[q].matches = 2
        /\ sp[q].at = "exited"
        /\ sp[q].status = 1
        /\ runs # <<>>
        /\ envFile.exists

\* ---- C18 ----
\* C18: a script run whose glob matches exactly one existing file ends with
\* status 0, having written the output file with the selected --volumes mode.
Claim_C18 ==
    \A q \in SProcs :
        (sp[q].entry = "cli" /\ sp[q].matches = 1 /\ sp[q].exists
            /\ sp[q].at = "exited")
            => /\ sp[q].status = 0
               /\ \E f \in outFiles :
                    f.run = sp[q].run /\ f.volumes = sp[q].volumes

\* ---------------------------------------------------------------------
\* make_multi_instance_safe (safeify_compose.py, lines 91-140) applied to a
\* parsed compose document, once and again to its own result
\* ---------------------------------------------------------------------

MaxPorts == 2           \* length of a service's ports list
MaxApplications == 2    \* applications to one document

\* keys of the services mapping; YAML keys are case-sensitive
ServiceNames == {"web", "Web", "api"}

\* str.upper()
upper(n) ==
    CASE n = "web" -> "WEB" [] n = "Web" -> "WEB" [] n = "api" -> "API"
      [] n = "db" -> "DB" [] n = "Db" -> "DB"

\* the decimal text of a list index, as an f-string formats it
DecStr(i) == <<"0", "1", "2", "3", "4", "5", "6", "7", "8", "9">>[i + 1]

\* A ports entry as YAML parses it: a string, an integer, or the mapping of
\* the long syntax.  val is the text of str(port), cut into pieces with every
\* ":" a piece of its own.
PortEntries ==
    {[kind |-> "str", val |-> <<"8080", ":", "80">>],
     [kind |-> "str", val |-> <<"127.0.0.1", ":", "8443", ":", "443">>],
     [kind |-> "int", val |-> <<"80">>],
     [kind |-> "dict", val |-> <<"{'target'", ":", " 80}">>]}

PortLists == UNION {[1..n -> PortEntries] : n \in 0..MaxPorts}

\* a service mapping; has_ports = FALSE: no "ports" key
ServiceConfigs(n) ==
    {sc \in [name : {n}, has_ports : BOOLEAN, ports : PortLists,
             container_name : BOOLEAN, image : {"img"}] :
        ~sc.has_ports => sc.ports = <<>>}

AnyService == UNION {ServiceConfigs(n) : n \in ServiceNames}

\* the services mapping in document order, keys distinct
ServiceMaps ==
    {<<>>} \cup {<<a>> : a \in AnyService}
           \cup {p \in {<<a, b>> : a \in AnyService, b \in AnyService} :
                    p[1].name # p[2].name}

Documents == [services : ServiceMaps, networks : BOOLEAN]

\* s.split(":")[-1]
split_last(s) ==
    LET colons == {i \in DOMAIN s : s[i] = ":"}
        last == IF colons = {} THEN 0
                ELSE CHOOSE i \in colons : \A j \in colons : j <= i
    IN SubSeq(s, last + 1, Len(s))

\* lines 113-115
container_port_whole(port) == port.val
container_port(port) ==
    IF port.kind = "str" THEN split_last(port.val) ELSE port.val

\* lines 118-121; i counts from 0
env_var_name(service_name, nports, i) ==
    IF nports = 1 THEN <<upper(service_name), "_PORT">>
    ELSE <<upper(service_name), "_PORT_", DecStr(i)>>

\* line 128: f"${{{env_var_name}:-{container_port}}}:{container_port}"
new_port(name, c) ==
    [kind |-> "str",
     val |-> <<"${">> \o name \o <<":", "-">> \o c \o <<"}", ":">> \o c]

\* a dict as its items in insertion order
HasKey(d, k) == \E j \in DOMAIN d : d[j].key = k
DictGet(d, k) == d[CHOOSE j \in DOMAIN d : d[j].key = k].val
\* d[k] = v: a key already there keeps its place and takes the new value
DictSet(d, k, v) ==
    IF HasKey(d, k)
    THEN [j \in DOMAIN d |-> IF d[j].key = k THEN [key |-> k, val |-> v] ELSE d[j]]
    ELSE Append(d, [key |-> k, val |-> v])

\* lines 111-129: the loop over enumerate(ports), from index i on
RECURSIVE ports_loop(_, _, _, _)
ports_loop(service_name, ports, i, acc) ==
    IF i = Len(ports) THEN acc
    ELSE LET c == container_port(ports[i + 1])
             nm == env_var_name(service_name, Len(ports), i)
         IN ports_loop(service_name, ports, i + 1,
                       [new_ports |-> Append(acc.new_ports, new_port(nm, c)),
                        env_vars |-> DictSet(acc.env_vars, nm, c)])

\* lines 107-135: the loop over services.items(), from the k-th item on
RECURSIVE services_loop(_, _, _)
services_loop(services, k, acc) ==
    IF k > Len(services) THEN acc
    ELSE LET sc == services[k]
             r == IF sc.has_ports
                  THEN ports_loop(sc.name, sc.ports, 0,
                                  [new_ports |-> <<>>, env_vars |-> acc.env_vars])
                  ELSE [new_ports |-> sc.ports, env_vars |-> acc.env_vars]
             nsc == [sc EXCEPT !.ports = r.new_ports, !.container_name = FALSE]
         IN services_loop(services, k + 1,
                          [services |-> Append(acc.services, nsc),
                           env_vars |-> r.env_vars])

\* lines 103-140
make_multi_instance_safe_keeps_networks(data) ==
    LET r == services_loop(data.services, 1, [services |-> <<>>, env_vars |-> <<>>])
    IN [data |-> [data EXCEPT !.services = r.services],
        env_vars |-> r.env_vars]
make_multi_instance_safe(data) ==
    LET r == services_loop(data.services, 1, [services |-> <<>>, env_vars |-> <<>>])
    IN [data |-> [data EXCEPT !.services = r.services, !.networks = FALSE],
        env_vars |-> r.env_vars]

InitXf ==
    /\ MainIdle
    /\ VolIdle
    /\ PathIdle
    /\ MgrIdle
    /\ SafeIdle
    /\ doc0 \in Documents
    /\ doc = doc0
    /\ env_vars = <<>>
    /\ once = [data |-> doc0, env_vars |-> <<>>]
    /\ napplied = 0

\* data, env_vars = make_multi_instance_safe(data)
apply_make_multi_instance_safe ==
    /\ napplied < MaxApplications
    /\ LET r == make_multi_instance_safe(doc)
       IN /\ doc' = r.data
          /\ env_vars' = r.env_vars
          /\ once' = IF napplied = 0 THEN r ELSE once
    /\ napplied' = napplied + 1
    /\ UNCHANGED <<doc0, notXf>>

NextXf == apply_make_multi_instance_safe

SpecXform == InitXf /\ [][NextXf]_vars

\* entries of the short syntax: "host:container", "container" or an integer
ShortSyntax(port) == port.kind \in {"str", "int"}
AllShortSyntax(data) ==
    \A k \in DOMAIN data.services :
        \A i \in DOMAIN data.services[k].ports :
            ShortSyntax(data.services[k].ports[i])
HasPortEntry(data) ==
    \E k \in DOMAIN data.services : data.services[k].ports # <<>>

\* ---- C19 ----
\* C19: after one application, every service that had a ports list has a list
\* of the same length whose entry i is "${NAME:-c}:c", c being the text after
\* the last ':' of the original entry (the whole entry if it has none) and
\* NAME the service name in upper case followed by _PORT (one entry) or
\* _PORT_i (otherwise), and the returned EnvVarSet maps NAME to c.
Claim_C19 ==
    (napplied = 1 /\ AllShortSyntax(doc0)) =>
        \A k \in DOMAIN doc0.services :
            LET s0 == doc0.services[k]
                s1 == doc.services[k]
            IN s0.has_ports =>
                /\ s1.has_ports
                /\ Len(s1.ports) = Len(s0.ports)
                /\ \A i \in DOMAIN s0.ports :
                      ShortSyntax(s0.ports[i]) =>
                        LET c == split_last(s0.ports[i].val)
                            NAME == env_var_name(s0.name, Len(s0.ports), i - 1)
                        IN /\ s1.ports[i] = new_port(NAME, c)
                           /\ HasKey(env_vars, NAME)
                           /\ DictGet(env_vars, NAME) = c

\* ---- C20 ----
\* C20 as stated: for a document with a port entry, the document after two
\* applications differs from the document after one.
Claim_C20 ==
    (napplied >= 2 /\ HasPortEntry(doc0)) => doc # once.data

\* C20 amended: when every port entry is a string or an integer, a second
\* application reproduces the document and the EnvVarSet of the first.
Thm_C20 ==
    (napplied >= 2 /\ AllShortSyntax(doc0))
        => doc = once.data /\ env_vars = once.env_vars

\* applied twice to a document where a service publishes "8080:80": the first
\* application rewrote the entry, the second left it as it was
Wit_C20 ==
    /\ napplied = 2
    /\ AllShortSyntax(doc0)
    /\ \E k \in DOMAIN doc0.services :
          /\ doc0.services[k].ports = <<[kind |-> "str", val |-> <<"8080", ":", "80">>]>>
          /\ once.data.services[k].ports # doc0.services[k].ports
          /\ doc.services[k].ports = once.data.services[k].ports
          /\ env_vars # <<>>

\* ---------------------------------------------------------------------
\* One call of safeify_compose (lines 143-189) followed through
\* transform_volumes (lines 23-88) and make_multi_instance_safe
\* ---------------------------------------------------------------------

MaxVolumes == 2         \* length of a service's volumes list

\* what a caller may pass as volumes_option
ModeArgs == VolumeModes \cup {"named"}

\* A volumes entry as YAML parses it: a string or the mapping of the long
\* syntax.  val is the text cut into pieces: the first character and every
\* ":" are pieces of their own.
VolumeEntries ==
    {[kind |-> "str", val |-> <<".", "/data", ":", "/var/lib/data">>],
     [kind |-> "str", val |-> <<"/", "srv", ":", "/srv", ":", "ro">>],
     [kind |-> "str", val |-> <<"d", "bdata", ":", "/data">>],
     [kind |-> "str", val |-> <<"/", "cache">>],
     [kind |-> "dict", val |-> <<"{", "'type'", ":", " 'bind'}">>]}

VolumeLists == UNION {[1..n -> VolumeEntries] : n \in 0..MaxVolumes}

\* a service mapping with a container_name that publishes no port;
\* has_volumes = FALSE: no "volumes" key
VolServiceConfigs(n) ==
    {sc \in [name : {n}, has_volumes : BOOLEAN, volumes : VolumeLists,
             has_ports : {FALSE}, ports : {<<>>}, container_name : {TRUE},
             image : {"img"}] :
        ~sc.has_volumes => sc.volumes = <<>>}

\* the services mapping: none, one service, or db followed by Db
VolServiceMaps ==
    {<<>>} \cup {<<a>> : a \in VolServiceConfigs("db") \cup VolServiceConfigs("Db")}
           \cup {<<a, b>> : a \in VolServiceConfigs("db"), b \in VolServiceConfigs("Db")}

\* the top-level volumes mapping: its keys in order; has = FALSE: no such key
TopVolumes == {[has |-> FALSE, keys |-> <<>>], [has |-> TRUE, keys |-> <<<<"dbdata">>>>]}

VolDocuments == [services : VolServiceMaps, volumes : TopVolumes, networks : {TRUE}]

\* lines 47 and 57: isinstance(vol, str) and ":" in vol and vol[0] in "./"
is_bind_mount(vol) ==
    /\ vol.kind = "str"
    /\ \E i \in DOMAIN vol.val : vol.val[i] = ":"
    /\ vol.val[1] \in {".", "/"}

\* lines 48-50: hashlib.sha256(f"{service_name}:{vol}".encode()).hexdigest()[:8]
sha256_8(text) ==
    CASE text = <<"db", ":", ".", "/data", ":", "/var/lib/data">> -> "f1af289d"
      [] text = <<"db", ":", "/", "srv", ":", "/srv", ":", "ro">> -> "1660028d"
      [] text = <<"Db", ":", ".", "/data", ":", "/var/lib/data">> -> "150a7283"
      [] text = <<"Db", ":", "/", "srv", ":", "/srv", ":", "ro">> -> "6d6d7aa2"

\* line 51: f"{service_name}-{vol_hash}"
default_vol_name(service_name, vol) ==
    <<service_name, "-", sha256_8(<<service_name, ":">> \o vol.val)>>

\* lines 54-58
total_bind_mounts(volumes) ==
    Cardinality({i \in DOMAIN volumes : is_bind_mount(volumes[i])})

\* lines 61-66; k is bind_mount_count
volume_env_var_name(service_name, total, k) ==
    IF total = 1 THEN <<upper(service_name), "_VOLUME">>
    ELSE <<upper(service_name), "_VOLUME_", DecStr(k)>>

\* ':'.join(vol.split(':')[1:]): the text after the first ":"
after_first_colon(s) ==
    LET first == CHOOSE i \in DOMAIN s :
                    s[i] = ":" /\ \A j \in 1..(i - 1) : s[j] # ":"
    IN SubSeq(s, first + 1, Len(s))

\* lines 73-76
new_volume(name, d, vol) ==
    [kind |-> "str",
     val |-> <<"${">> \o name \o <<":", "-">> \o d \o <<"}", ":">>
                \o after_first_colon(vol.val)]

\* named_volumes[k] = None, and dict.update: a key already there keeps its place
KeyAdd(keys, k) ==
    IF \E j \in DOMAIN keys : keys[j] = k THEN keys ELSE Append(keys, k)
RECURSIVE KeysUpdate(_, _)
KeysUpdate(keys, more) ==
    IF more = <<>> THEN keys
    ELSE KeysUpdate(KeyAdd(keys, Head(more)), Tail(more))

\* lines 46-79: the loop over service_config["volumes"], from entry i on
RECURSIVE volumes_loop(_, _, _, _)
volumes_loop(service_name, volumes, i, acc) ==
    IF i > Len(volumes) THEN acc
    ELSE LET vol == volumes[i] IN
         IF is_bind_mount(vol)
         THEN LET d == default_vol_name(service_name, vol)
                  total == total_bind_mounts(volumes)
                  nm == volume_env_var_name(service_name, total, acc.k)
              IN volumes_loop(service_name, volumes, i + 1,
                    [new_volumes |-> Append(acc.new_volumes, new_volume(nm, d, vol)),
                     env_vars |-> DictSet(acc.env_vars, nm, d),
                     named |-> KeyAdd(acc.named, d),
                     k |-> IF total = 1 THEN acc.k ELSE acc.k + 1])
         ELSE volumes_loop(service_name, volumes, i + 1,
                    [acc EXCEPT !.new_volumes = Append(@, vol)])

\* lines 41-80: the loop over services.items(), from the j-th item on
RECURSIVE convert_loop(_, _, _)
convert_loop(services, j, acc) ==
    IF j > Len(services) THEN acc
    ELSE LET sc == services[j] IN
         IF ~sc.has_volumes
         THEN convert_loop(services, j + 1,
                           [acc EXCEPT !.services = Append(@, sc)])
         ELSE LET r == volumes_loop(sc.name, sc.volumes, 1,
                          [new_volumes |-> <<>>, env_vars |-> acc.env_vars,
                           named |-> acc.named, k |-> 0])
              IN convert_loop(services, j + 1,
                    [services |-> Append(acc.services,
                                         [sc EXCEPT !.volumes = r.new_volumes]),
                     env_vars |-> r.env_vars,
                     named |-> r.named])

\* lines 81-82: data.setdefault("volumes", {}).update(named_volumes)
register_nothing(top, named) == top
register(top, named) ==
    IF named # <<>> THEN [has |-> TRUE, keys |-> KeysUpdate(top.keys, named)]
    ELSE top

\* lines 23-88; raised: the call ended in ValueError
transform_volumes_services_only(data, volumes_option) ==
    IF volumes_option = "remove"
    THEN [data |-> [data EXCEPT
                      !.services = [j \in DOMAIN data.services |->
                                      [data.services[j] EXCEPT !.has_volumes = FALSE,
                                                               !.volumes = <<>>]]],
          env_vars |-> <<>>, raised |-> FALSE]
    ELSE [data |-> data, env_vars |-> <<>>, raised |-> volumes_option # "keep"]
transform_volumes(data, volumes_option) ==
    IF volumes_option = "remove"
    THEN [data |-> [data EXCEPT
                      !.services = [j \in DOMAIN data.services |->
                                      [data.services[j] EXCEPT !.has_volumes = FALSE,
                                                               !.volumes = <<>>]],
                      !.volumes = [has |-> FALSE, keys |-> <<>>]],
          env_vars |-> <<>>, raised |-> FALSE]
    ELSE IF volumes_option = "convert-to-named"
    THEN LET r == convert_loop(data.services, 1,
                     [services |-> <<>>, env_vars |-> <<>>, named |-> <<>>])
         IN [data |-> [data EXCEPT
                         !.services = r.services,
                         !.volumes = register(@, r.named)],
             env_vars |-> r.env_vars, raised |-> FALSE]
    ELSE IF volumes_option = "keep"
    THEN [data |-> data, env_vars |-> <<>>, raised |-> FALSE]
    ELSE [data |-> data, env_vars |-> <<>>, raised |-> TRUE]

\* line 157: {**volume_env_vars, **port_env_vars}
RECURSIVE DictMerge(_, _)
DictMerge(a, b) ==
    IF b = <<>> THEN a
    ELSE DictMerge(DictSet(a, Head(b).key, Head(b).val), Tail(b))

InitVol ==
    /\ MainIdle
    /\ MgrIdle
    /\ SafeIdle
    /\ XfIdle
    /\ PathIdle
    /\ vdoc0 \in VolDocuments
    /\ vdata = vdoc0
    /\ volume_env_vars = <<>>
    /\ venv = <<>>
    /\ vmode \in ModeArgs
    /\ vat = "open"
    /\ vprev = NoRun
    /\ vwrote = {}

\* lines 150-151: open(input_path) or yaml.safe_load may raise
v_load ==
    /\ vat = "open"
    /\ \/ vat' = "raised"
       \/ vat' = "parsed"
    /\ UNCHANGED <<vdoc0, vdata, volume_env_vars, venv, vmode, vprev, vwrote, notVol>>

v_transform_volumes_swallow ==
    /\ vat = "parsed"
    /\ LET r == transform_volumes(vdata, vmode)
       IN /\ vdata' = r.data
          /\ volume_env_vars' = r.env_vars
          /\ vat' = "volumes_done"
    /\ UNCHANGED <<vdoc0, venv, vmode, vprev, vwrote, notVol>>

\* line 153
v_transform_volumes ==
    /\ vat = "parsed"
    /\ LET r == transform_volumes(vdata, vmode)
       IN /\ vdata' = r.data
          /\ volume_env_vars' = r.env_vars
          /\ vat' = IF r.raised THEN "raised" ELSE "volumes_done"
    /\ UNCHANGED <<vdoc0, venv, vmode, vprev, vwrote, notVol>>

\* lines 154-157
v_make_multi_instance_safe ==
    /\ vat = "volumes_done"
    /\ LET r == make_multi_instance_safe(vdata)
       IN /\ vdata' = r.data
          /\ venv' = DictMerge(volume_env_vars, r.env_vars)
    /\ vat' = "safe_done"
    /\ UNCHANGED <<vdoc0, volume_env_vars, vmode, vprev, vwrote, notVol>>

\* lines 159-183: the output file, then, if env_vars, .env and .safecompose.env
v_write ==
    /\ vat = "safe_done"
    /\ vwrote' = {"output"} \cup
                 (IF venv # <<>> THEN {".env", ".safecompose.env"} ELSE {})
    /\ vat' = "written"
    /\ UNCHANGED <<vdoc0, vdata, volume_env_vars, venv, vmode, vprev, notVol>>

\* safeify_compose is called again on the unchanged input file
v_again ==
    /\ vat = "written"
    /\ ~vprev.ran
    /\ vprev' = [data |-> vdata, env_vars |-> venv, ran |-> TRUE]
    /\ vdata' = vdoc0
    /\ volume_env_vars' = <<>>
    /\ venv' = <<>>
    /\ vwrote' = {}
    /\ vat' = "open"
    /\ UNCHANGED <<vdoc0, vmode, notVol>>

NextVol ==
    \/ v_load
    \/ v_transform_volumes
    \/ v_make_multi_instance_safe
    \/ v_write
    \/ v_again

SpecVol == InitVol /\ [][NextVol]_vars

\* the bind mounts of the input document, as (service, entry) positions
BindMounts ==
    {p \in UNION {{<<j, i>> : i \in DOMAIN vdoc0.services[j].volumes} :
                    j \in DOMAIN vdoc0.services} :
        is_bind_mount(vdoc0.services[p[1]].volumes[p[2]])}
\* how many bind mounts service j has before entry i
BindsBefore(j, i) ==
    Cardinality({h \in 1..(i - 1) : is_bind_mount(vdoc0.services[j].volumes[h])})
Contains(s, part) ==
    \E o \in 0..(Len(s) - Len(part)) : SubSeq(s, o + 1, o + Len(part)) = part
Converted == vmode = "convert-to-named" /\ vat = "volumes_done"

\* ---- C21 ----
\* C21: after transform_volumes in mode convert-to-named, every volumes list
\* has its length and order, every bind mount is "${NAME:-D}:" followed by
\* the original text after the first ':', NAME being the upper-cased service
\* name with _VOLUME (one bind mount in the service) or _VOLUME_k (k-th bind
\* mount otherwise), every other entry is as it was, and the EnvVarSet maps
\* each NAME to its D.
Claim_C21 ==
    Converted =>
        \A j \in DOMAIN vdoc0.services :
            LET s0 == vdoc0.services[j]
                s1 == vdata.services[j]
            IN /\ Len(s1.volumes) = Len(s0.volumes)
               /\ \A i \in DOMAIN s0.volumes :
                    IF is_bind_mount(s0.volumes[i])
                    THEN LET D == default_vol_name(s0.name, s0.volumes[i])
                             NAME == volume_env_var_name(s0.name,
                                        total_bind_mounts(s0.volumes),
                                        BindsBefore(j, i))
                         IN /\ s1.volumes[i] = new_volume(NAME, D, s0.volumes[i])
                            /\ HasKey(volume_env_vars, NAME)
                            /\ DictGet(volume_env_vars, NAME) = D
                    ELSE s1.volumes[i] = s0.volumes[i]

Thm_C23 ==
    (vmode = "remove" /\ vat = "volumes_done") =>
        /\ ~vdata.volumes.has
        /\ volume_env_vars = <<>>
        /\ vdata.networks = vdoc0.networks
        /\ Len(vdata.services) = Len(vdoc0.services)
        /\ \A j \in DOMAIN vdoc0.services :
              vdata.services[j] = [vdoc0.services[j] EXCEPT !.has_volumes = FALSE,
                                                            !.volumes = <<>>]

\* two services with volumes and a top-level volumes mapping went through
\* mode remove
Wit_C23 ==
    /\ vmode = "remove"
    /\ vat = "volumes_done"
    /\ vdoc0.volumes.has
    /\ Len(vdoc0.services) = 2
    /\ \A j \in DOMAIN vdoc0.services : Len(vdoc0.services[j].volumes) = MaxVolumes
    /\ \A j \in DOMAIN vdata.services : ~vdata.services[j].has_volumes

\* ---- C25 ----
\* C25: when the transforms of one call are done, the EnvVarSet has one entry
\* per rewritten port entry and rewritten bind mount.
Claim_C25 ==
    vat \in {"safe_done", "written"} =>
        Len(venv) =
            (IF vmode = "convert-to-named" THEN Cardinality(BindMounts) ELSE 0)
            + Cardinality(UNION {{<<j, i>> : i \in DOMAIN vdoc0.services[j].ports} :
                                   j \in DOMAIN vdoc0.services})

\* ---- C27 ----
\* C27: with a volumes_option that is none of keep, remove, convert-to-named
\* the call of transform_volumes ends in an error with the document as it
\* was; and a call of safeify_compose that ended in an error while parsing or
\* in transform_volumes has opened no file for writing.
Thm_C27 ==
    /\ (vmode \notin VolumeModes /\ vat \notin {"open", "parsed"})
          => vat = "raised" /\ vdata = vdoc0
    /\ vat = "raised" => vwrote = {} /\ vdata = vdoc0

\* an unknown mode was refused on a document with a bind mount
Wit_C27 ==
    /\ vmode = "named"
    /\ vat = "raised"
    /\ BindMounts # {}
    /\ vwrote = {}

\* ---- C24 ----
\* C24: after make_multi_instance_safe no service has a container_name and
\* there is no top-level networks key; every service keeps its name, its other
\* keys and the presence of its ports key; and a document without ports,
\* container_name and networks comes back as it was, with an empty EnvVarSet.
Thm_C24 ==
    napplied >= 1 =>
        /\ ~doc.networks
        /\ Len(doc.services) = Len(doc0.services)
        /\ \A k \in DOMAIN doc0.services :
              doc.services[k] = [doc0.services[k] EXCEPT
                                   !.ports = doc.services[k].ports,
                                   !.container_name = FALSE]
        /\ ((~doc0.networks
             /\ \A k \in DOMAIN doc0.services :
                    ~doc0.services[k].has_ports /\ ~doc0.services[k].container_name)
               => doc = doc0 /\ env_vars = <<>>)

\* a document with networks and two services, one with a container_name
\* and ports, the other with neither, after one application
Wit_C24 ==
    /\ napplied = 1
    /\ doc0.networks
    /\ Len(doc0.services) = 2
    /\ doc0.services[1].container_name /\ doc0.services[1].ports # <<>>
    /\ ~doc0.services[2].container_name /\ ~doc0.services[2].has_ports
    /\ doc.services[2] = doc0.services[2]
    /\ ~doc.services[1].container_name

\* ---------------------------------------------------------------------
\* The paths one call of safeify_compose reads and writes (lines 143-183),
\* called with the default output path or as setup_docker calls it
\* (spinoff_agent.py, lines 111-124)
\* ---------------------------------------------------------------------

\* file names cut into pieces, every "." a piece of its own
ComposeFileNames ==
    {<<"docker-", "compose", ".", "y", "ml">>,
     <<"docker-", "compose", ".", "y", "a", "ml">>,
     <<"compose", ".", "y", "ml">>,
     <<"docker-", "compose", ".", "safe", ".", "y", "ml">>,
     <<"docker-", "compose", ".", "y", "ml", ".", "safe", ".", "y", "ml">>,
     <<"stack">>}
DotEnv == <<".", "env">>
DotSafecomposeEnv == <<".", "safecompose", ".", "env">>
SafeSuffix == <<".", "safe", ".", "y", "ml">>

\* ".": the current directory; "workspace": workspace_path; "sub": elsewhere
Dirs == {".", "workspace", "sub"}

\* fnmatch(name, "*compose.y*ml") of spinoff_agent.py line 113
matches_glob(name) ==
    \E i \in DOMAIN name :
        /\ i + 3 <= Len(name)
        /\ name[i] = "compose" /\ name[i + 1] = "." /\ name[i + 2] = "y"
        /\ name[Len(name)] = "ml"

\* Path.stem: the name without its last suffix
stem(name) ==
    LET dots == {i \in DOMAIN name : name[i] = "." /\ i > 1 /\ i < Len(name)}
    IN IF dots = {} THEN name
       ELSE SubSeq(name, 1, (CHOOSE i \in dots : \A j \in dots : j <= i) - 1)

\* line 148 with output_path None: Path(f"{input_path.stem}.safe.yml")
default_output_in_place(input_path) == input_path
default_output(input_path) ==
    [dir |-> ".", name |-> stem(input_path.name) \o SafeSuffix]

\* spinoff_agent.py line 122: workspace_path / "docker-compose.safe.yml"
safe_compose_path ==
    [dir |-> "workspace", name |-> <<"docker-", "compose">> \o SafeSuffix]

InputPaths == [dir : Dirs, name : ComposeFileNames]
AllPaths ==
    InputPaths \cup {default_output(ip) : ip \in InputPaths}
               \cup {safe_compose_path}
               \cup {[dir |-> ".", name |-> DotEnv],
                     [dir |-> ".", name |-> DotSafecomposeEnv]}

\* the calls: by a caller that gives no output path, or by setup_docker
PathCalls ==
    {[at |-> "start", caller |-> "default", input |-> ip,
      output |-> ip, env |-> e] : ip \in InputPaths, e \in BOOLEAN}
    \cup
    {[at |-> "start", caller |-> "setup_docker", input |-> ip,
      output |-> ip, env |-> e] :
        ip \in {x \in InputPaths : x.dir = "workspace" /\ matches_glob(x.name)},
        e \in BOOLEAN}

InitPath ==
    /\ MainIdle
    /\ MgrIdle
    /\ SafeIdle
    /\ XfIdle
    /\ VolIdle
    /\ cwdWrites = {}
    /\ prun \in PathCalls
    \* the input file is there; a file may be there already at the place
    \* the output will go
    /\ \E pre \in BOOLEAN :
          files = [f \in AllPaths |->
                     IF f = prun.input THEN "original"
                     ELSE IF pre /\ f \in {default_output(prun.input), safe_compose_path}
                          THEN "original"
                          ELSE "absent"]

\* line 148
p_resolve ==
    /\ prun.at = "start"
    /\ prun' = [prun EXCEPT !.at = "read",
                            !.output = IF prun.caller = "setup_docker"
                                       THEN safe_compose_path
                                       ELSE default_output(prun.input)]
    /\ UNCHANGED <<files, notPath>>

\* lines 150-157: the input is opened for reading only
p_read ==
    /\ prun.at = "read"
    /\ prun' = [prun EXCEPT !.at = "write"]
    /\ UNCHANGED <<files, notPath>>

\* lines 159-160: open(output_path, "w") and yaml.dump
p_write ==
    /\ prun.at = "write"
    /\ files' = [files EXCEPT ![prun.output] = "safe"]
    /\ prun' = [prun EXCEPT !.at = "env"]
    /\ UNCHANGED notPath

\* lines 163-183: if env_vars, .env and .safecompose.env of the current
\* directory are written
p_env ==
    /\ prun.at = "env"
    /\ files' = IF prun.env
                THEN [files EXCEPT ![[dir |-> ".", name |-> DotEnv]] = "generated",
                                   ![[dir |-> ".", name |-> DotSafecomposeEnv]] = "generated"]
                ELSE files
    /\ prun' = [prun EXCEPT !.at = "returned"]
    /\ UNCHANGED notPath

NextPath ==
    \/ p_resolve
    \/ p_read
    \/ p_write
    \/ p_env

SpecPath == InitPath /\ [][NextPath]_vars

\* ---- C26 ----
\* C26: once the output path is resolved it is not the input path, whether
\* it is the default or the one setup_docker passes, and at every moment of
\* the call the input file has the content it had before the call.
Thm_C26 ==
    /\ prun.at \notin {"idle", "start"} => prun.output # prun.input
    /\ prun.at # "idle" => files[prun.input] = "original"

\* setup_docker's call on workspace/docker-compose.yml has returned: the
\* output is written, .env is generated, the input is as it was
Wit_C26 ==
    /\ prun.at = "returned"
    /\ prun.caller = "setup_docker"
    /\ prun.input = [dir |-> "workspace", name |-> <<"docker-", "compose", ".", "y", "ml">>]
    /\ files[safe_compose_path] = "safe"
    /\ files[[dir |-> ".", name |-> DotEnv]] = "generated"
    /\ files[prun.input] = "original"

\* ---- C28 ----
\* C28: the operations of a run come in the order copy, branch checkout,
\* docker stage, agent, summary, teardown; after a failed operation only
\* teardown follows; and no external command is attempted twice.
StageOf(e) ==
    CASE e \in {"git rev-parse --show-toplevel", "mkdir", "copytree"} -> 1
      [] e \in {"git rev-parse --verify", "git checkout", "git checkout -b"} -> 2
      [] e \in {"docker skipped", "safeify", "docker up", "docker ps"} -> 3
      [] e \in {"agent start", "agent exit"} -> 4
      [] e = "summary" -> 5
      [] e \in {"cleanup_handler", "docker down", "rmtree"} -> 6
\* the operation failed: a command the run checks ended with a non-zero
\* status, or a library call raised
StageFailure(r) ==
    /\ StageOf(r.ev) < 6
    /\ r.ev # "git rev-parse --verify"
    /\ r.rc # 0
ExternalCommands ==
    {"copytree", "git rev-parse --show-toplevel", "git rev-parse --verify",
     "git checkout", "git checkout -b", "safeify", "docker up", "docker ps",
     "agent start", "docker down", "rmtree"}
Claim_C28 ==
    /\ \A i \in DOMAIN log : \A j \in DOMAIN log :
          i < j => /\ StageOf(log[i].ev) <= StageOf(log[j].ev)
                   /\ StageFailure(log[i]) => StageOf(log[j].ev) = 6
    /\ \A e \in ExternalCommands : Count(e) <= 1

\* ---- C29 ----
\* C29: a run without signals whose teardown went through and in which a
\* checked command ended with status N exits with N, one in which a stage
\* raised another exception exits with 1; a failed run never exits with 0.
Claim_C29 ==
    (Exited /\ nsig = 0 /\ ~RmFailed) =>
        \A i \in DOMAIN log :
            StageFailure(log[i]) =>
                /\ exitStatus # 0
                /\ exitStatus = IF log[i].rc = Raised THEN 1 ELSE log[i].rc

\* ---- C30 ----
\* C30: when a run that got through all its stages and its teardown, without
\* a signal, has exited, no file of the current directory has been created
\* or changed by it.
Claim_C30 ==
    (Exited /\ Has("summary") /\ nsig = 0 /\ ~RmFailed) => cwdWrites = {}

====
